---- MODULE Spec2Model ----
(***************************************************************************)
(* A model of the mail fetch and enrichment pipeline:                      *)
(*   email_handler.py  fetch_emails (the batch path: one shared IMAP       *)
(*                     session, a thread pool, per-message retry)          *)
(*   main.py           respect_cooldown, fetch_emails_from_server,         *)
(*                     process_email, GET /fetch-emails                    *)
(*   groq.py           analyze_and_tag_email                               *)
(* Spec is the batch path.  The other specifications are introduced with   *)
(* the code they model.                                                    *)
(***************************************************************************)
EXTENDS Integers, Sequences, FiniteSets, TLC

(***************************************************************************)
(* Bounds of the model.                                                    *)
(***************************************************************************)
\* messages in the mailbox: the search returns ids 1..n, n <= MaxMsgs
MaxMsgs == 2
\* the limit argument ranges over 0..MaxLimit
MaxLimit == 2
\* a structured response holds at most MaxItems entries
MaxItems == 4
\* messages on the server of the HTTP path: ids 1..n, n <= MaxInbox
MaxInbox == 2
\* the same, in the specification of two concurrent requests
MaxShared == 1
\* the clock runs at most MaxIdle past the end of a cooldown before the next
\* call, and a sleep ends at most MaxIdle late
MaxIdle == 1
\* leaf parts of a message
MaxParts == 2
\* messages in the mailbox when the pool's cap is exercised
MaxPool == 6

(***************************************************************************)
(* Program constants.                                                      *)
(***************************************************************************)
\* email_handler.py:135  def fetch_single_email(mail_id, max_retries=3)
max_retries == 3
\* email_handler.py:152  max_workers=min(len(email_ids_to_fetch), 5)
POOL_CAP == 5
\* main.py:51  COOLDOWN_PERIOD = 2
COOLDOWN_PERIOD == 2

VARIABLES
    \* ---- email_handler.fetch_emails ----
    limit,              \* the limit argument
    mailbox,            \* number of messages the search would return
    pc,                 \* position of the calling thread
    session,            \* "none" | "open" | "closed": the IMAP4 session
    email_ids_to_fetch, \* the selected ids, ascending
    max_workers,        \* size of the pool
    submitted,          \* how many of email_ids_to_fetch are submitted
    task,               \* task[k]: the future of email_ids_to_fetch[k]
    collected,          \* futures as_completed has yielded
    emails,             \* the result list
    ret,                \* what fetch_emails returned, once pc = "returned"
    caught,             \* whether the handler of line 168 ran
    failed_at,          \* the call whose exception that handler caught
    fetch_outcomes,     \* what an attempt may do in this run: <<OK | NO |
                        \* ERR of imap.fetch, whether the message parses>>
    \* ---- groq.analyze_and_tag_email ----
    tg_subject,         \* the subject argument: a set of words
    tg_response,        \* what the text-generation call does
    tg_pc,              \* "call" | "returned"
    tg_result,          \* the value returned
    \* ---- main.py: the /fetch-emails requests of one process ----
    clients,            \* the requests that arrive in this run
    tag_service,        \* the responses the Tagger's call may get
    sum_service,        \* whether the Summarizer's call may succeed, fail
    inbox,              \* number of messages on the mail server
    now,                \* time.time()
    last_api_call,      \* main.py:50
    stamps,             \* the last two values written to last_api_call
    stamp_by,           \* the requests that wrote them
    rq,                 \* rq[r]: the state of request r
    \* ---- one fetched message: extract_body, get_email_body, the record ----
    mm_path,            \* "batch" (email_handler.py) | "server" (main.py)
    mm_msg,             \* the parsed message: its headers and its parts
    mm_pc,              \* "raw" | "built"
    mm_body,            \* what extract_body / get_email_body returned
    mm_record,          \* the record built from the message, or None
    \* ---- tag_manager.TagManager ----
    standard_tags,      \* self.standard_tags
    user_tags,          \* self.user_tags
    tag_colors,         \* self.tag_colors
    tags_file,          \* what save_tags last wrote to tags.json
    tm_call,            \* the last call: its name, argument, return value
    tm_before           \* user_tags and tag_colors when that call began

fetchVars == <<limit, mailbox, pc, session, email_ids_to_fetch, max_workers,
               submitted, task, collected, emails, ret, caught,
               failed_at, fetch_outcomes>>

taggerVars == <<tg_subject, tg_response, tg_pc, tg_result>>

\* what a run fixes at its start
settings == <<clients, tag_service, sum_service, inbox>>

serverVars == <<settings, now, last_api_call, stamps, stamp_by, rq>>

mimeVars == <<mm_path, mm_msg, mm_pc, mm_body, mm_record>>

tagVars == <<standard_tags, user_tags, tag_colors, tags_file, tm_call,
             tm_before>>

vars == <<fetchVars, taggerVars, serverVars, mimeVars, tagVars>>

\* no message is being turned into a record
MimeIdle ==
    /\ mm_path = "none"
    /\ mm_msg = [multipart |-> FALSE, parts |-> <<>>, from |-> "plain",
                 subject |-> "plain", date |-> "plain"]
    /\ mm_pc = "idle"
    /\ mm_body = <<>>
    /\ mm_record = [t |-> "none"]

Min(a, b) == IF a < b THEN a ELSE b
Max(a, b) == IF a > b THEN a ELSE b

\* 1, 2, .., n: what imap.search returns for a mailbox of n messages,
\* ascending by arrival
IdsUpTo(n) == [i \in 1..n |-> i]

\* Python's s[i:] for any integer i: a negative index counts from the end,
\* and the start is clamped to 0..len(s).
PySliceFrom(s, i) ==
    LET n     == Len(s)
        start == IF i < 0 THEN Max(n + i, 0) ELSE Min(i, n)
    IN  SubSeq(s, start + 1, n)

\* email_handler.py:130  mail_ids[-limit:] if mail_ids else []
SelectTail(mail_ids, lim) ==
    IF Len(mail_ids) > 0 THEN PySliceFrom(mail_ids, 0 - lim) ELSE <<>>

\* main.py:124  email_ids[-limit:] if len(email_ids) >= limit else email_ids
SelectTailServer(email_ids, lim) ==
    IF Len(email_ids) >= lim THEN PySliceFrom(email_ids, 0 - lim) ELSE email_ids

NewTask == [st |-> "queued", hist |-> <<>>, parse |-> "na", result |-> "none"]

Range(s) == {s[i] : i \in DOMAIN s}

FetchInit ==
    /\ limit \in 0..MaxLimit
    /\ mailbox \in 0..MaxMsgs
    /\ pc = "connect"
    /\ session = "none"
    /\ email_ids_to_fetch = <<>>
    /\ max_workers = 0
    /\ submitted = 0
    /\ task = <<>>
    /\ collected = {}
    /\ emails = <<>>
    /\ ret = <<>>
    /\ caught = FALSE
    /\ failed_at = "none"
    /\ fetch_outcomes = {<<"OK", TRUE>>, <<"OK", FALSE>>, <<"NO", FALSE>>,
                         <<"ERR", FALSE>>}

\* email_handler.py:168-170: except Exception: return []
\* the handler letting the exception through to the caller.
Except_Reraise(where) ==
    /\ pc' = "raised"
    /\ ret' = ret
    /\ caught' = FALSE
    /\ failed_at' = where

Except(where) ==
    /\ pc' = "returned"
    /\ ret' = <<>>
    /\ caught' = TRUE
    /\ failed_at' = where

\* email_handler.py:106  imap = imaplib.IMAP4(...)
Connect ==
    /\ pc = "connect"
    /\ \E ok \in BOOLEAN :
         IF ok THEN /\ session' = "open"
                    /\ pc' = "starttls"
                    /\ ret' = ret
                    /\ caught' = caught
                    /\ failed_at' = failed_at
               ELSE /\ session' = session
                    /\ Except("connect")
    /\ UNCHANGED <<fetch_outcomes, limit, mailbox, email_ids_to_fetch, max_workers, submitted,
                   task, collected, emails>>

\* email_handler.py:107-114  starttls, login, select: each may raise
SessionCall(from, to) ==
    /\ pc = from
    /\ \E ok \in BOOLEAN :
         IF ok THEN /\ pc' = to
                    /\ ret' = ret
                    /\ caught' = caught
                    /\ failed_at' = failed_at
               ELSE Except(from)
    /\ UNCHANGED <<fetch_outcomes, limit, mailbox, session, email_ids_to_fetch, max_workers,
                   submitted, task, collected, emails>>

StartTls == SessionCall("starttls", "login")
Login    == SessionCall("login", "select")
Select   == SessionCall("select", "search")

\* email_handler.py:126-132  search, split, select the tail
Search ==
    /\ pc = "search"
    /\ \E ok \in BOOLEAN :
         IF ok
         THEN /\ email_ids_to_fetch' = SelectTail(IdsUpTo(mailbox), limit)
              /\ pc' = "pool"
              /\ ret' = ret
              /\ caught' = caught
              /\ failed_at' = failed_at
         ELSE /\ email_ids_to_fetch' = email_ids_to_fetch
              /\ Except("search")
    /\ UNCHANGED <<fetch_outcomes, limit, mailbox, session, max_workers, submitted, task,
                   collected, emails>>

\* email_handler.py:152  ThreadPoolExecutor(max_workers=min(len(ids), 5)):
\* the constructor raises ValueError when max_workers <= 0
CreatePool ==
    /\ pc = "pool"
    /\ LET w == Min(Len(email_ids_to_fetch), POOL_CAP)
       IN  IF w <= 0
           THEN /\ Except("pool")
                /\ UNCHANGED <<max_workers, task>>
           ELSE /\ max_workers' = w
                /\ task' = [k \in 1..Len(email_ids_to_fetch) |-> NewTask]
                /\ pc' = "submit"
                /\ ret' = ret
                /\ caught' = caught
                /\ failed_at' = failed_at
    /\ UNCHANGED <<fetch_outcomes, limit, mailbox, session, email_ids_to_fetch, submitted,
                   collected, emails>>

\* email_handler.py:154  executor.submit(fetch_single_email, mail_id), in
\* the order of email_ids_to_fetch
Submit ==
    /\ pc = "submit"
    /\ submitted < Len(email_ids_to_fetch)
    /\ submitted' = submitted + 1
    /\ pc' = IF submitted + 1 = Len(email_ids_to_fetch) THEN "collect" ELSE pc
    /\ UNCHANGED <<fetch_outcomes, limit, mailbox, session, email_ids_to_fetch, max_workers,
                   task, collected, emails, ret, caught,
                   failed_at>>

\* the tasks a pool thread is running
Busy == {k \in DOMAIN task : task[k].st \in {"running", "infetch", "hung"}}

\* StartTask with a thread for every submitted work item.
StartTask_Unbounded(k) ==
    /\ k \in DOMAIN task
    /\ k <= submitted
    /\ task[k].st = "queued"
    /\ task' = [task EXCEPT ![k].st = "running"]
    /\ UNCHANGED <<fetch_outcomes, limit, mailbox, pc, session,
                   email_ids_to_fetch, max_workers, submitted, collected,
                   emails, ret, caught, failed_at>>

\* a pool thread takes a submitted work item: at most max_workers threads
StartTask(k) ==
    /\ k \in DOMAIN task
    /\ k <= submitted
    /\ task[k].st = "queued"
    /\ Cardinality(Busy) < max_workers
    /\ task' = [task EXCEPT ![k].st = "running"]
    /\ UNCHANGED <<fetch_outcomes, limit, mailbox, pc, session, email_ids_to_fetch, max_workers,
                   submitted, collected, emails, ret, caught,
                   failed_at>>

\* email_handler.py:138  the worker enters imap.fetch on the shared session
\* (no lock is taken)
BeginFetch(k) ==
    /\ k \in DOMAIN task
    /\ task[k].st = "running"
    /\ task' = [task EXCEPT ![k].st = "infetch"]
    /\ UNCHANGED <<fetch_outcomes, limit, mailbox, pc, session, email_ids_to_fetch, max_workers,
                   submitted, collected, emails, ret, caught,
                   failed_at>>

\* AfterAttempt with the return None of line 143 missing: an exhausted non-OK
\* attempt falls through to process_message and yields a record.
AfterAttempt_FallThrough(attempt, out, parsed) ==
    CASE out = "OK" ->
           [st |-> "finished", parse |-> IF parsed THEN "ok" ELSE "fail",
            result |-> IF parsed THEN "record" ELSE "none"]
      [] out = "NO" ->
           IF attempt < max_retries - 1
           THEN [st |-> "running", parse |-> "na", result |-> "none"]
           ELSE [st |-> "finished", parse |-> "na", result |-> "record"]
      [] OTHER ->
           IF attempt >= max_retries - 1
           THEN [st |-> "finished", parse |-> "na", result |-> "none"]
           ELSE [st |-> "running", parse |-> "na", result |-> "none"]

\* AfterAttempt trying again when process_message returned None.
AfterAttempt_RetryParse(attempt, out, parsed) ==
    CASE out = "OK" ->
           IF ~parsed /\ attempt < max_retries - 1
           THEN [st |-> "running", parse |-> "na", result |-> "none"]
           ELSE [st |-> "finished", parse |-> IF parsed THEN "ok" ELSE "fail",
                 result |-> IF parsed THEN "record" ELSE "none"]
      [] out = "NO" ->
           IF attempt < max_retries - 1
           THEN [st |-> "running", parse |-> "na", result |-> "none"]
           ELSE [st |-> "finished", parse |-> "na", result |-> "none"]
      [] OTHER ->
           IF attempt >= max_retries - 1
           THEN [st |-> "finished", parse |-> "na", result |-> "none"]
           ELSE [st |-> "running", parse |-> "na", result |-> "none"]

\* email_handler.py:136-149  what one attempt's outcome does to the loop.
\* attempt is the 0-based attempt number, out the outcome of imap.fetch
\* ("OK", "NO": a non-OK status, "ERR": an exception), parsed whether
\* process_message returned a record.
AfterAttempt(attempt, out, parsed) ==
    CASE out = "OK" ->
           [st |-> "finished", parse |-> IF parsed THEN "ok" ELSE "fail",
            result |-> IF parsed THEN "record" ELSE "none"]
      [] out = "NO" ->
           IF attempt < max_retries - 1
           THEN [st |-> "running", parse |-> "na", result |-> "none"]
           ELSE [st |-> "finished", parse |-> "na", result |-> "none"]
      [] OTHER ->
           IF attempt >= max_retries - 1
           THEN [st |-> "finished", parse |-> "na", result |-> "none"]
           ELSE [st |-> "running", parse |-> "na", result |-> "none"]

\* email_handler.py:138-149  imap.fetch returns or raises
EndFetch(k) ==
    /\ k \in DOMAIN task
    /\ task[k].st = "infetch"
    /\ \E o \in fetch_outcomes :
         LET out    == o[1]
             parsed == o[2]
             a      == AfterAttempt(Len(task[k].hist), out, parsed)
         IN  task' = [task EXCEPT ![k] =
                        [st |-> a.st, hist |-> Append(@.hist, out),
                         parse |-> a.parse, result |-> a.result]]
    /\ UNCHANGED <<fetch_outcomes, limit, mailbox, pc, session, email_ids_to_fetch, max_workers,
                   submitted, collected, emails, ret, caught,
                   failed_at>>

\* email_handler.py:138  two workers inside imap.fetch read the responses
\* of the one session: when the other worker has read the tagged response
\* of worker k, k stays blocked in readline (the session has no timeout)
Stall(k) ==
    /\ k \in DOMAIN task
    /\ task[k].st = "infetch"
    /\ \E j \in DOMAIN task : j # k /\ task[j].st = "infetch"
    /\ task' = [task EXCEPT ![k].st = "hung"]
    /\ UNCHANGED <<fetch_outcomes, limit, mailbox, pc, session,
                   email_ids_to_fetch, max_workers, submitted, collected,
                   emails, ret, caught, failed_at>>

\* Collect appending the record a second time.
Collect_Twice(k) ==
    /\ pc = "collect"
    /\ k \in DOMAIN task
    /\ task[k].st = "finished"
    /\ k \notin collected
    /\ collected' = collected \cup {k}
    /\ emails' = IF task[k].result = "record"
                 THEN emails \o <<email_ids_to_fetch[k], email_ids_to_fetch[k]>>
                 ELSE emails
    /\ UNCHANGED <<fetch_outcomes, limit, mailbox, pc, session, email_ids_to_fetch, max_workers,
                   submitted, task, ret, caught,
                   failed_at>>

\* email_handler.py:157-164  as_completed yields a finished future; its
\* result is appended when it is a record
Collect(k) ==
    /\ pc = "collect"
    /\ k \in DOMAIN task
    /\ task[k].st = "finished"
    /\ k \notin collected
    /\ collected' = collected \cup {k}
    /\ emails' = IF task[k].result = "record"
                 THEN Append(emails, email_ids_to_fetch[k])
                 ELSE emails
    /\ UNCHANGED <<fetch_outcomes, limit, mailbox, pc, session, email_ids_to_fetch, max_workers,
                   submitted, task, ret, caught,
                   failed_at>>

\* email_handler.py:152-165  the with block ends when every future is
\* collected
ExitPool ==
    /\ pc = "collect"
    /\ collected = DOMAIN task
    /\ pc' = "logout"
    /\ UNCHANGED <<fetch_outcomes, limit, mailbox, session, email_ids_to_fetch, max_workers,
                   submitted, task, collected, emails, ret, caught,
                   failed_at>>

\* email_handler.py:166-167  imap.logout(); return emails.  logout is a
\* command on the session like the others and may raise.
Logout ==
    /\ pc = "logout"
    /\ \E ok \in BOOLEAN :
         IF ok THEN /\ session' = "closed"
                    /\ pc' = "returned"
                    /\ ret' = emails
                    /\ caught' = caught
                    /\ failed_at' = failed_at
               ELSE /\ session' = session
                    /\ Except("logout")
    /\ UNCHANGED <<fetch_outcomes, limit, mailbox, email_ids_to_fetch, max_workers, submitted,
                   task, collected, emails>>

\* the variables fetch_emails of email_handler.py does not touch
others == <<tg_subject, tg_response, tg_pc, tg_result, clients, tag_service,
            sum_service, inbox, now, last_api_call, stamps, stamp_by, rq,
            mimeVars, tagVars>>

(***************************************************************************)
(* groq.analyze_and_tag_email.                                             *)
(*                                                                         *)
(* A text is a set of words.  "kw in text.lower()" is a substring test on  *)
(* the lower-cased text: LowerHas(w) is the set of the names the code      *)
(* looks for that occur in the lower-cased word w.                         *)
(***************************************************************************)
\* groq.py:79  the names scanned for in an unstructured response, in order
tag_names == <<"academic", "sports", "event", "club", "admin", "deadline",
               "urgent", "low">>

\* groq.py:88, 90  the subject keywords
deadline_kws == {"deadline", "due", "submit"}
urgent_kws == {"urgent", "important", "asap"}

\* the words texts of the model are made of
SubjectWords == {"Assignment", "due", "Submit", "URGENT", "asap", "Friday"}
ContentWords == {"Academic", "sports", "event", "deadline", "urgent",
                 "follow", "hello"}

\* str.lower() followed by the substring test of a name
LowerHas(w) ==
    CASE w = "Assignment" -> {}
      [] w = "due"        -> {"due"}
      [] w = "Submit"     -> {"submit"}
      [] w = "URGENT"     -> {"urgent"}
      [] w = "asap"       -> {"asap"}
      [] w = "Friday"     -> {}
      [] w = "Academic"   -> {"academic"}
      [] w = "sports"     -> {"sports"}
      [] w = "event"      -> {"event"}
      [] w = "deadline"   -> {"deadline"}
      [] w = "urgent"     -> {"urgent"}
      [] w = "follow"     -> {"low"}
      [] OTHER            -> {}

\* name in text.lower()
InLower(name, text) == \E w \in text : name \in LowerHas(w)

\* a candidate: a bare name, a {name, confidence} object (confidence in
\* tenths), or any other JSON value (a number, an object without "name")
BareName(n) == [k |-> "str", name |-> n, conf |-> 0]
Named(n, c) == [k |-> "obj", name |-> n, conf |-> c]
OtherValue == [k |-> "other", name |-> "", conf |-> 0]

\* return values: a list, or None
ListOf(s) == [t |-> "list", v |-> s]
NoneValue == [t |-> "none", v |-> <<>>]

\* the subsequence of s whose elements satisfy keep
RECURSIVE SelectInOrder(_, _)
SelectInOrder(s, keep) ==
    IF s = <<>> THEN <<>>
    ELSE IF Head(s) \in keep
         THEN <<Head(s)>> \o SelectInOrder(Tail(s), keep)
         ELSE SelectInOrder(Tail(s), keep)

\* SubjectFallback with the two keyword groups tested in the other order.
SubjectFallback_UrgentFirst(subject) ==
    IF \E kw \in urgent_kws : InLower(kw, subject)
    THEN ListOf(<<BareName("urgent")>>)
    ELSE IF \E kw \in deadline_kws : InLower(kw, subject)
         THEN ListOf(<<BareName("deadline")>>)
         ELSE ListOf(<<BareName("general")>>)

\* groq.py:86-93  the subject-keyword fallback
SubjectFallback(subject) ==
    IF \E kw \in deadline_kws : InLower(kw, subject)
    THEN ListOf(<<BareName("deadline")>>)
    ELSE IF \E kw \in urgent_kws : InLower(kw, subject)
         THEN ListOf(<<BareName("urgent")>>)
         ELSE ListOf(<<BareName("general")>>)

\* groq.py:74-95  json.loads raised: scan the lower-cased text
ScanText(content, subject) ==
    LET found == {n \in Range(tag_names) : InLower(n, content)}
        potential_tags == SelectInOrder(tag_names, found)
    IN  IF potential_tags = <<>>
        THEN SubjectFallback(subject)
        ELSE ListOf([i \in DOMAIN potential_tags |->
                        BareName(potential_tags[i])])

\* analyze_and_tag_email with the handler of line 97 missing its return:
\* a failed call falls back to the subject keywords.
analyze_and_tag_email_KeywordsOnError(response, subject) ==
    CASE response.kind = "error" -> SubjectFallback(subject)
      [] response.kind = "json_list" -> ListOf(response.items)
      [] response.kind = "json_other" -> NoneValue
      [] OTHER -> ScanText(response.words, subject)

\* groq.py:34-99  analyze_and_tag_email: response is what
\* ChatCompletion.create does, and the content it returns
\*   "error":      the call raises (line 97-99)
\*   "json_list":  content parses to a list (line 70-72)
\*   "json_other": content parses to a value that is no list: neither return
\*                 of the try is reached and the function returns None
\*   "text":       json.loads raises JSONDecodeError (line 73-95)
analyze_and_tag_email(response, subject) ==
    CASE response.kind = "error" -> ListOf(<<BareName("general")>>)
      [] response.kind = "json_list" -> ListOf(response.items)
      [] response.kind = "json_other" -> NoneValue
      [] OTHER -> ScanText(response.words, subject)

\* the candidates a structured response may hold
Candidates == {BareName("urgent"), Named("urgent", 9), Named("Club ", 15),
               OtherValue}

\* JSON arrays of at most MaxItems candidates
RECURSIVE SeqsUpTo(_, _)
SeqsUpTo(S, n) ==
    IF n = 0 THEN {<<>>}
    ELSE LET shorter == SeqsUpTo(S, n - 1)
         IN  shorter \cup {Append(s, x) : s \in shorter, x \in S}

Responses ==
    {[kind |-> "error", items |-> <<>>, words |-> {}]}
    \cup {[kind |-> "json_other", items |-> <<>>, words |-> {}]}
    \cup {[kind |-> "json_list", items |-> s, words |-> {}] :
            s \in SeqsUpTo(Candidates, MaxItems)}
    \cup {[kind |-> "text", items |-> <<>>, words |-> ws] :
            ws \in SUBSET ContentWords}

NoResponse == [kind |-> "error", items |-> <<>>, words |-> {}]

TaggerIdle ==
    /\ tg_subject = {}
    /\ tg_response = NoResponse
    /\ tg_pc = "idle"
    /\ tg_result = NoneValue

TaggerInit ==
    /\ tg_subject \in SUBSET SubjectWords
    /\ tg_response \in Responses
    /\ tg_pc = "call"
    /\ tg_result = NoneValue

\* one call of analyze_and_tag_email(text, subject)
TaggerCall ==
    /\ tg_pc = "call"
    /\ tg_result' = analyze_and_tag_email(tg_response, tg_subject)
    /\ tg_pc' = "returned"
    /\ UNCHANGED <<tg_subject, tg_response>>

FetchIdle ==
    /\ limit = 0
    /\ mailbox = 0
    /\ pc = "idle"
    /\ session = "none"
    /\ email_ids_to_fetch = <<>>
    /\ max_workers = 0
    /\ submitted = 0
    /\ task = <<>>
    /\ collected = {}
    /\ emails = <<>>
    /\ ret = <<>>
    /\ caught = FALSE
    /\ failed_at = "none"
    /\ fetch_outcomes = {}

(***************************************************************************)
(* main.py: respect_cooldown, fetch_emails_from_server, generate_summary,  *)
(* generate_tags, process_email and the GET /fetch-emails handler.         *)
(*                                                                         *)
(* The handlers are coroutines of one event loop: a request runs until it  *)
(* awaits, and the only await that suspends is asyncio.sleep(0.1) of       *)
(* process_email (line 214).  Times are whole seconds.                     *)
(***************************************************************************)
Requests == {"r1", "r2"}

\* tag_manager.py:16-43  TAG_COLORS, the colours of a store with no tags.json
TAG_COLORS ==
    [urgent |-> "#e74c3c", important |-> "#e67e22", normal |-> "#3498db",
     low |-> "#95a5a6", academic |-> "#9b59b6", deadline |-> "#c0392b",
     research |-> "#8e44ad", lecture |-> "#2980b9", sports |-> "#2ecc71",
     event |-> "#e67e22", club |-> "#3498db", cultural |-> "#d35400",
     admin |-> "#7f8c8d", announcement |-> "#34495e",
     registration |-> "#1abc9c", fees |-> "#f1c40f", general |-> "#34495e"]

\* str.lower().strip() on the names of the model
LowerStrip(name) ==
    CASE name = "Club "  -> "club"
      [] name = "URGENT" -> "urgent"
      [] OTHER           -> name

\* tag_manager.py:116-118  get_tag_color: dict.get, None when absent
get_tag_color(colors, tag) ==
    IF LowerStrip(tag) \in DOMAIN colors
    THEN colors[LowerStrip(tag)]
    ELSE "None"

\* tag_manager.py:8-13  TAG_CATEGORIES
TAG_CATEGORIES ==
    [priority |-> {"urgent", "important", "normal", "low"},
     academic |-> {"academic", "deadline", "research", "lecture"},
     activities |-> {"sports", "event", "club", "cultural"},
     administrative |-> {"admin", "announcement", "registration", "fees"}]

\* tag_manager.py:46-55  TagManager() where no tags.json exists: no user
\* tags, the colours of TAG_COLORS, the standard tags of the categories
TagStart ==
    /\ standard_tags = UNION {TAG_CATEGORIES[c] : c \in DOMAIN TAG_CATEGORIES}
    /\ user_tags = {}
    /\ tag_colors = TAG_COLORS
    /\ tags_file = [written |-> FALSE, user_tags |-> {}, tag_colors |-> <<>>]
    /\ tm_call = [op |-> "none", tag |-> "", ret |-> TRUE]
    /\ tm_before = [user_tags |-> {}, tag_colors |-> TAG_COLORS]

\* the tag arguments and the colour arguments of the calls
TagInputs == {"general", "URGENT", "Club ", "project", ""}
ColorInputs == {"#ff0000"}

\* d[key] = value (a new key included) and del d[key]
DictSet(d, key, value) ==
    [x \in DOMAIN d \cup {key} |-> IF x = key THEN value ELSE d[x]]
DictDel(d, key) == [x \in DOMAIN d \ {key} |-> d[x]]

\* tag_manager.py:71-76  save_tags
save_tags(tags, colors) ==
    tags_file' = [written |-> TRUE, user_tags |-> tags, tag_colors |-> colors]

\* the call op(t) began in the current state and returns value
Called(op, t, value) ==
    /\ tm_call' = [op |-> op, tag |-> t, ret |-> value]
    /\ tm_before' = [user_tags |-> user_tags, tag_colors |-> tag_colors]

\* tag_manager.py:82-94  add_tag
add_tag(t) ==
    LET tag == LowerStrip(t)
    IN  /\ IF tag # "" /\ tag \notin standard_tags
           THEN /\ user_tags' = user_tags \cup {tag}
                /\ tag_colors' = IF tag \notin DOMAIN tag_colors
                                 THEN DictSet(tag_colors, tag, "#3498db")
                                 ELSE tag_colors
                /\ save_tags(user_tags', tag_colors')
                /\ Called("add_tag", t, TRUE)
           ELSE /\ UNCHANGED <<user_tags, tag_colors, tags_file>>
                /\ Called("add_tag", t, FALSE)
        /\ UNCHANGED standard_tags

\* tag_manager.py:96-105  remove_tag
remove_tag(t) ==
    LET tag == LowerStrip(t)
    IN  /\ IF tag \in user_tags
           THEN /\ user_tags' = user_tags \ {tag}
                /\ tag_colors' = IF tag \in DOMAIN tag_colors
                                 THEN DictDel(tag_colors, tag)
                                 ELSE tag_colors
                /\ save_tags(user_tags', tag_colors')
                /\ Called("remove_tag", t, TRUE)
           ELSE /\ UNCHANGED <<user_tags, tag_colors, tags_file>>
                /\ Called("remove_tag", t, FALSE)
        /\ UNCHANGED standard_tags

\* tag_manager.py:107-114  set_tag_color; get_all_tags (lines 78-80) is
\* the standard tags and the user tags
set_tag_color(t, color) ==
    LET tag == LowerStrip(t)
    IN  /\ IF tag \in standard_tags \cup user_tags
           THEN /\ tag_colors' = DictSet(tag_colors, tag, color)
                /\ user_tags' = user_tags
                /\ save_tags(user_tags', tag_colors')
                /\ Called("set_tag_color", t, TRUE)
           ELSE /\ UNCHANGED <<user_tags, tag_colors, tags_file>>
                /\ Called("set_tag_color", t, FALSE)
        /\ UNCHANGED standard_tags

TagNext ==
    \/ \E t \in TagInputs :
          add_tag(t)
          /\ UNCHANGED <<fetchVars, taggerVars, serverVars, mimeVars>>
    \/ \E t \in TagInputs :
          remove_tag(t)
          /\ UNCHANGED <<fetchVars, taggerVars, serverVars, mimeVars>>
    \/ \E t \in TagInputs, color \in ColorInputs :
          set_tag_color(t, color)
          /\ UNCHANGED <<fetchVars, taggerVars, serverVars, mimeVars>>

\* the message with server id i, as fetch_emails_from_server builds it
\* (main.py:153-160)
SubjectOf(i) ==
    CASE i = 1 -> {"Assignment", "due", "Friday"}
      [] i = 2 -> {"URGENT"}
      [] OTHER -> {"Friday"}

RawOf(i) ==
    [id |-> i, from |-> <<"From", i>>, subject |-> SubjectOf(i),
     date |-> <<"Date", i>>, body |-> <<"Body", i>>, unread |-> TRUE]

\* the reverse of a sequence (main.py:127 reversed(email_ids_to_fetch))
Reverse(s) == [i \in DOMAIN s |-> s[Len(s) + 1 - i]]

\* the subsequence of s at the positions whose element is in keep
RECURSIVE Keep(_, _)
Keep(s, keep) ==
    IF s = <<>> THEN <<>>
    ELSE IF Head(s) \in keep
         THEN <<Head(s)>> \o Keep(Tail(s), keep)
         ELSE Keep(Tail(s), keep)

\* main.py:122-165  the list fetch_emails_from_server returns when the
\* session calls succeed: newest first, without the ids whose fetch or
\* parse failed (fetched is the set of ids that came through)
ServerBatch(n, lim, fetched) ==
    LET ids == Reverse(SelectTailServer(IdsUpTo(n), lim))
        got == Keep(ids, fetched)
    IN  [k \in DOMAIN got |-> RawOf(got[k])]

\* main.py:58-59  the time at which respect_cooldown stops waiting
WakeTime_CallStart(current_time, last) == current_time

WakeTime(current_time, last) ==
    IF current_time - last < COOLDOWN_PERIOD
    THEN current_time + (COOLDOWN_PERIOD - (current_time - last))
    ELSE current_time

\* main.py:53-61  respect_cooldown, called by request r.  It does not
\* await: the event loop runs nothing else until it returns.  time.sleep
\* may return late, and line 61 reads the clock again.
respect_cooldown(r) ==
    \E late \in 0..MaxIdle :
        LET t == WakeTime(now, last_api_call) + late
        IN  /\ last_api_call' = t
            /\ now' = t
            /\ stamps' = IF stamps = <<>> THEN <<t>>
                         ELSE <<stamps[Len(stamps)], t>>
            /\ stamp_by' = IF stamp_by = <<>> THEN <<r>>
                           ELSE <<stamp_by[Len(stamp_by)], r>>

\* time passes
Tick ==
    /\ now - last_api_call < COOLDOWN_PERIOD + MaxIdle
    /\ \E r \in clients : rq[r].pc \notin {"done"}
    /\ now' = now + 1
    /\ UNCHANGED <<settings, last_api_call, stamps, stamp_by, rq>>

\* summarize_text letting the exception of the call through.
summarize_text_Reraise(ok) ==
    IF ok THEN [raised |-> FALSE, text |-> "generated summary"]
    ELSE [raised |-> TRUE, text |-> ""]

\* groq.py:14-32  summarize_text: the call's content, or the placeholder
\* returned by the except of line 30; nothing is raised
summarize_text(ok) ==
    IF ok THEN [raised |-> FALSE, text |-> "generated summary"]
    ELSE [raised |-> FALSE, text |-> "Summary unavailable"]

\* main.py:183-205  generate_tags after the Tagger returned raw_tags:
\* one TagWithConfidence per candidate, or an exception (iterating None,
\* calling .lower() on a value that is no string)
ToTag_FullConfidence(c) ==
    [name |-> c.name, confidence |-> 10,
     color |-> get_tag_color(TAG_COLORS, c.name)]

ToTag(c) ==
    [name |-> c.name,
     confidence |-> IF c.k = "obj" THEN c.conf ELSE 10,
     color |-> get_tag_color(TAG_COLORS, c.name)]

ConvertTags(raw_tags) ==
    IF raw_tags.t = "none" \/ \E i \in DOMAIN raw_tags.v : raw_tags.v[i].k = "other"
    THEN [raised |-> TRUE, tags |-> <<>>]
    ELSE [raised |-> FALSE,
          tags |-> [i \in DOMAIN raw_tags.v |-> ToTag(raw_tags.v[i])]]

\* main.py:219-227  the record of a message whose steps all returned
Assembled(m, summary, tags) ==
    [id |-> m.id, from |-> m.from, subject |-> m.subject, summary |-> summary,
     date |-> m.date, tags |-> tags, unread |-> m.unread]

\* Degraded with the placeholders of the Summarizer and the Tagger in place
\* of its own.
Degraded_Placeholders(m) ==
    [id |-> m.id, from |-> m.from, subject |-> m.subject,
     summary |-> "Summary unavailable", date |-> m.date,
     tags |-> <<ToTag(BareName("general"))>>, unread |-> m.unread]

\* main.py:228-239  the record of a message one of whose steps raised
Degraded(m) ==
    [id |-> m.id, from |-> m.from, subject |-> m.subject,
     summary |-> "Error generating summary", date |-> m.date,
     tags |-> <<>>, unread |-> m.unread]

\* what the Tagger's history holds for a message it was not called for
NotCalled == [t |-> "not_called", v |-> <<>>]

\* a request of GET /fetch-emails before its handler runs.  summarized,
\* raw_tags and raised record, per message, whether the Summarizer's call
\* succeeded, what the Tagger returned and whether the enrichment raised;
\* failed records that fetch_emails_from_server raised; steps is the calls
\* made so far for the latest message.
NewRequest ==
    [pc |-> "start", raw_emails |-> <<>>, i |-> 1,
     summary |-> "", processed_emails |-> <<>>, raised |-> <<>>,
     summarized |-> <<>>, raw_tags |-> <<>>, failed |-> FALSE,
     steps |-> <<>>, status |-> 0, body |-> "none"]

\* the request answering 200 with an empty list, as the batch path degrades.
ServerError_EmptyList(req) ==
    [req EXCEPT !.pc = "respond"]

\* main.py:167-169, 276-278  a failure of the session is raised as
\* HTTPException(500, detail) and the handler answers 500 with a detail
ServerError(req) ==
    [req EXCEPT !.pc = "done", !.status = 500, !.body = "detail"]

\* main.py:260, 108-169  fetch_emails_from_server(limit): a blocking call.
\* A connect, starttls, login, select or search failure is re-raised as
\* HTTPException(500), which the handler's except (line 276) turns into the
\* 500 response.
FetchFromServer(r) ==
    /\ r \in clients
    /\ rq[r].pc = "start"
    /\ \E lim \in 0..MaxLimit, ok \in BOOLEAN, fetched \in SUBSET (1..inbox) :
         IF ok
         THEN LET batch == ServerBatch(inbox, lim, fetched)
              IN  rq' = [rq EXCEPT ![r].raw_emails = batch,
                                   ![r].pc = IF batch = <<>> THEN "respond"
                                             ELSE "summary"]
         ELSE /\ fetched = {}
              /\ rq' = [rq EXCEPT ![r] = [ServerError(@) EXCEPT
                                              !.failed = TRUE]]
    /\ UNCHANGED <<settings, now, last_api_call, stamps, stamp_by>>

\* what process_email returns for message m once generate_tags has run
Emitted(m, summary, conv) ==
    IF conv.raised THEN Degraded(m) ELSE Assembled(m, summary, conv.tags)

\* Enriched leaving out a message whose enrichment raised.
Enriched_SkipRaised(processed_emails, m, summary, conv) ==
    IF conv.raised THEN processed_emails
    ELSE Append(processed_emails, Emitted(m, summary, conv))

\* main.py:265-266  processed_emails after process_email returned
Enriched(processed_emails, m, summary, conv) ==
    Append(processed_emails, Emitted(m, summary, conv))

\* generate_summary calling the Summarizer without the wait.
generate_summary_NoWait == <<"summarize_text">>

\* main.py:171-174  the calls of generate_summary, in order
generate_summary == <<"respect_cooldown", "summarize_text">>

\* main.py:176-205  the calls of generate_tags, in order: the wait, the
\* Tagger, then get_tag_color for each candidate up to the first one on
\* which it raises (no candidate when raw_tags is None)
generate_tags(raw_tags) ==
    LET bad == {i \in DOMAIN raw_tags.v : raw_tags.v[i].k = "other"}
        n   == IF raw_tags.t # "list" THEN 0
               ELSE IF bad = {} THEN Len(raw_tags.v)
               ELSE CHOOSE i \in bad : \A j \in bad : i <= j
    IN  <<"respect_cooldown", "analyze_and_tag_email">>
        \o [i \in 1..n |-> "get_tag_color"]

\* main.py:211, 171-174  generate_summary(body): respect_cooldown, then
\* summarize_text; then the coroutine suspends at asyncio.sleep (line 214).
\* An exception of generate_summary would reach the except of line 228.
GenerateSummary(r) ==
    /\ r \in clients
    /\ rq[r].pc = "summary"
    /\ respect_cooldown(r)
    /\ \E ok \in sum_service :
         LET m   == rq[r].raw_emails[rq[r].i]
             res == summarize_text(ok)
         IN  IF res.raised
             THEN rq' = [rq EXCEPT
                           ![r].processed_emails =
                               Enriched(@, m, "",
                                        [raised |-> TRUE, tags |-> <<>>]),
                           ![r].summarized = Append(@, ok),
                           ![r].raw_tags = Append(@, NotCalled),
                           ![r].raised = Append(@, TRUE),
                           ![r].steps = generate_summary \o <<"Degraded">>,
                           ![r].i = @ + 1,
                           ![r].pc = IF rq[r].i = Len(rq[r].raw_emails)
                                     THEN "respond" ELSE "summary"]
             ELSE rq' = [rq EXCEPT ![r].summary = res.text,
                                   ![r].summarized = Append(@, ok),
                                   ![r].steps = generate_summary,
                                   ![r].pc = "sleep"]
    /\ UNCHANGED settings

\* main.py:269-270  [e for e in processed_emails if e["unread"]]
RECURSIVE UnreadOnly(_)
UnreadOnly(es) ==
    IF es = <<>> THEN <<>>
    ELSE IF Head(es).unread THEN <<Head(es)>> \o UnreadOnly(Tail(es))
         ELSE UnreadOnly(Tail(es))

\* main.py:217-239, 176-205, 265-266  the sleep is over: generate_tags
\* (respect_cooldown, the Tagger, the conversion), the record, the append
GenerateTags(r) ==
    /\ r \in clients
    /\ rq[r].pc = "sleep"
    /\ respect_cooldown(r)
    /\ \E response \in tag_service :
         LET m    == rq[r].raw_emails[rq[r].i]
             raw  == analyze_and_tag_email(response, m.subject)
             conv == ConvertTags(raw)
         IN  rq' = [rq EXCEPT
                      ![r].processed_emails =
                          Enriched(@, m, rq[r].summary, conv),
                      ![r].raw_tags = Append(@, raw),
                      ![r].raised = Append(@, conv.raised),
                      ![r].steps = @ \o generate_tags(raw)
                                     \o <<IF conv.raised THEN "Degraded"
                                          ELSE "Assembled">>,
                      ![r].i = @ + 1,
                      ![r].summary = "",
                      ![r].pc = IF rq[r].i = Len(rq[r].raw_emails)
                                THEN "respond" ELSE "summary"]
    /\ UNCHANGED settings

\* main.py:268-275  the unread_only filter and the response
Respond(r) ==
    /\ r \in clients
    /\ rq[r].pc = "respond"
    /\ \E unread_only \in BOOLEAN :
         rq' = [rq EXCEPT
                  ![r].processed_emails =
                      IF unread_only THEN UnreadOnly(@) ELSE @,
                  ![r].pc = "done",
                  ![r].status = 200,
                  ![r].body = "list"]
    /\ UNCHANGED <<settings, now, last_api_call, stamps, stamp_by>>

ServerIdle ==
    /\ clients = {}
    /\ tag_service = {}
    /\ sum_service = {}
    /\ inbox = 0
    /\ now = 0
    /\ last_api_call = 0
    /\ stamps = <<>>
    /\ stamp_by = <<>>
    /\ rq = [r \in Requests |-> NewRequest]

\* the responses the Tagger's call gets in the server specifications
BriefResponses ==
    {[kind |-> "error", items |-> <<>>, words |-> {}],
     [kind |-> "json_list", items |-> <<Named("urgent", 9)>>, words |-> {}]}

VariedResponses ==
    BriefResponses
    \cup {[kind |-> "json_other", items |-> <<>>, words |-> {}],
          [kind |-> "json_list",
           items |-> <<BareName("deadline"), OtherValue>>, words |-> {}],
          [kind |-> "json_list",
           items |-> <<Named("urgent", 9), BareName("Club "),
                       Named("custom", 15)>>, words |-> {}]}

\* main.py:50  last_api_call = 0; the clock is past the first cooldown
ServerStart(cs, responses, summaries, n) ==
    /\ clients = cs
    /\ tag_service = responses
    /\ sum_service = summaries
    /\ inbox \in 0..n
    /\ now = COOLDOWN_PERIOD
    /\ last_api_call = 0
    /\ stamps = <<>>
    /\ stamp_by = <<>>
    /\ rq = [r \in Requests |-> NewRequest]

ServerNext ==
    \/ Tick /\ UNCHANGED <<fetchVars, taggerVars, mimeVars,
                                     tagVars>>
    \/ \E r \in Requests :
          FetchFromServer(r) /\ UNCHANGED <<fetchVars, taggerVars, mimeVars,
                                     tagVars>>
    \/ \E r \in Requests :
          GenerateSummary(r) /\ UNCHANGED <<fetchVars, taggerVars, mimeVars,
                                     tagVars>>
    \/ \E r \in Requests :
          GenerateTags(r) /\ UNCHANGED <<fetchVars, taggerVars, mimeVars,
                                     tagVars>>
    \/ \E r \in Requests :
          Respond(r) /\ UNCHANGED <<fetchVars, taggerVars, mimeVars,
                                     tagVars>>

\* two requests in flight in one process
ServerInit ==
    /\ FetchIdle
    /\ TaggerIdle
    /\ ServerStart(Requests, BriefResponses, {TRUE}, MaxShared)
    /\ MimeIdle
    /\ TagStart

SpecServer == ServerInit /\ [][ServerNext]_vars

\* one request; the Tagger's call fails, or answers with a list, with JSON
\* that is no list, or with a list holding a value generate_tags rejects
EnrichInit ==
    /\ FetchIdle
    /\ TaggerIdle
    /\ ServerStart({"r1"}, VariedResponses, BOOLEAN, MaxInbox)
    /\ MimeIdle
    /\ TagStart

SpecEnrich == EnrichInit /\ [][ServerNext]_vars

TaggerNext ==
    /\ TaggerCall
    /\ UNCHANGED <<fetchVars, serverVars, mimeVars, tagVars>>

\* the Tagger alone, over every response and subject of the model
TaggerOnlyInit ==
    FetchIdle /\ TaggerInit /\ ServerIdle /\ MimeIdle /\ TagStart

SpecTagger == TaggerOnlyInit /\ [][TaggerNext]_vars

(***************************************************************************)
(* Claims about the Tagger (SpecTagger).                                   *)
(***************************************************************************)
\* C9: whatever the text-generation service does, analyze_and_tag_email
\* returns a list of at least 1 and at most 3 elements.
C9_OneToThreeTags ==
    tg_pc = "returned" =>
        /\ tg_result.t = "list"
        /\ Len(tg_result.v) >= 1
        /\ Len(tg_result.v) <= 3

\* C10: when the text-generation call raises, analyze_and_tag_email returns
\* exactly ["general"], for every subject.
C10_GeneralOnError ==
    (tg_pc = "returned" /\ tg_response.kind = "error") =>
        tg_result = ListOf(<<BareName("general")>>)

C10_Witness ==
    /\ tg_pc = "returned"
    /\ tg_response.kind = "error"
    /\ InLower("due", tg_subject)
    /\ tg_result = ListOf(<<BareName("general")>>)

\* the subject contains one of deadline / due / submit
HasDeadlineKw(subject) == \E kw \in deadline_kws : InLower(kw, subject)
\* the subject contains one of urgent / important / asap
HasUrgentKw(subject) == \E kw \in urgent_kws : InLower(kw, subject)

\* the scan of an unstructured response finds none of the 8 names
NoNameInText(response) ==
    /\ response.kind = "text"
    /\ \A n \in Range(tag_names) : ~InLower(n, response.words)

\* C11 as stated: with the service unreachable and one of deadline / due /
\* submit in the subject, the Tagger returns ["deadline"].
C11_Original ==
    (tg_pc = "returned" /\ tg_response.kind = "error"
        /\ HasDeadlineKw(tg_subject)) =>
        tg_result = ListOf(<<BareName("deadline")>>)

\* C11 amended: with the service unreachable the Tagger returns ["general"]
\* even when the subject contains deadline / due / submit; the subject
\* keywords give ["deadline"] when the service answers with unstructured
\* text in which none of the 8 names occurs.
C11_KeywordFallback ==
    (tg_pc = "returned" /\ HasDeadlineKw(tg_subject)) =>
        /\ tg_response.kind = "error" =>
             tg_result = ListOf(<<BareName("general")>>)
        /\ NoNameInText(tg_response) =>
             tg_result = ListOf(<<BareName("deadline")>>)

C11_Witness ==
    /\ tg_pc = "returned"
    /\ tg_response.kind = "error"
    /\ tg_subject = {"Assignment", "due", "Friday"}
    /\ tg_result = ListOf(<<BareName("general")>>)

\* neither the structured parse nor the scan of a response of the service
\* yields a tag name
YieldsNoName(response) ==
    \/ response.kind = "json_other"
    \/ /\ response.kind = "json_list"
       /\ \A i \in DOMAIN response.items : response.items[i].k = "other"
    \/ NoNameInText(response)

\* C12: when the service responds and neither the structured parse nor the
\* scan yields a tag name, the Tagger returns ["deadline"], ["urgent"] or
\* ["general"] by the subject keywords, deadline first.
C12_FallbackChain ==
    (tg_pc = "returned" /\ YieldsNoName(tg_response)) =>
        tg_result =
            ListOf(<<BareName(IF HasDeadlineKw(tg_subject) THEN "deadline"
                              ELSE IF HasUrgentKw(tg_subject) THEN "urgent"
                              ELSE "general")>>)

Init ==
    /\ FetchInit
    /\ TaggerIdle
    /\ ServerIdle
    /\ MimeIdle
    /\ TagStart

\* the steps of the calling thread and of the pool's workers
Progress ==
    \/ Connect /\ UNCHANGED others
    \/ StartTls /\ UNCHANGED others
    \/ Login /\ UNCHANGED others
    \/ Select /\ UNCHANGED others
    \/ Search /\ UNCHANGED others
    \/ CreatePool /\ UNCHANGED others
    \/ Submit /\ UNCHANGED others
    \/ \E k \in DOMAIN task : StartTask(k) /\ UNCHANGED others
    \/ \E k \in DOMAIN task : BeginFetch(k) /\ UNCHANGED others
    \/ \E k \in DOMAIN task : EndFetch(k) /\ UNCHANGED others
    \/ \E k \in DOMAIN task : Collect(k) /\ UNCHANGED others
    \/ ExitPool /\ UNCHANGED others
    \/ Logout /\ UNCHANGED others

Next ==
    \/ Progress
    \/ \E k \in DOMAIN task : Stall(k) /\ UNCHANGED others

Spec == Init /\ [][Next]_vars

\* a mailbox larger than the pool's cap, on a server whose fetch always
\* answers OK with a message that parses
PoolInit ==
    /\ limit = MaxPool
    /\ mailbox \in 0..MaxPool
    /\ pc = "connect"
    /\ session = "none"
    /\ email_ids_to_fetch = <<>>
    /\ max_workers = 0
    /\ submitted = 0
    /\ task = <<>>
    /\ collected = {}
    /\ emails = <<>>
    /\ ret = <<>>
    /\ caught = FALSE
    /\ failed_at = "none"
    /\ fetch_outcomes = {<<"OK", TRUE>>}
    /\ TaggerIdle
    /\ ServerIdle
    /\ MimeIdle
    /\ TagStart

SpecPool == PoolInit /\ [][Next]_vars

\* the threads are scheduled fairly: a step of the program that stays
\* possible is taken
FairSpec == Spec /\ WF_vars(Progress)

(***************************************************************************)
(* Claims about the batch path (Spec).                                     *)
(***************************************************************************)
InFetch == {k \in DOMAIN task : task[k].st = "infetch"}

\* Number of occurrences of x in the sequence s
Count(s, x) == Cardinality({i \in DOMAIN s : s[i] = x})

\* the last k elements of s
LastK(s, k) == SubSeq(s, Len(s) - k + 1, Len(s))

\* C1: at most one worker is inside imap.fetch on the shared session at any
\* time.
C1_FetchMutex == Cardinality(InFetch) <= 1

\* the retry pattern of C2: two non-OK statuses, then OK and a record parsed
RetriedThenOk(k) ==
    /\ task[k].hist = <<"NO", "NO", "OK">>
    /\ task[k].parse = "ok"

\* all attempts of task k failed (non-OK or raised, in any mix)
AllFailed(k) ==
    /\ Len(task[k].hist) = max_retries
    /\ \A i \in 1..max_retries : task[k].hist[i] \in {"NO", "ERR"}

\* task k fetched OK and parsed
Succeeded(k) ==
    /\ task[k].st = "finished"
    /\ task[k].hist # <<>>
    /\ task[k].hist[Len(task[k].hist)] = "OK"
    /\ task[k].parse = "ok"

\* C2 as stated: a message fetched OK at the third attempt is in the returned
\* list exactly once, whatever else happens.
C2_Original ==
    pc = "returned" =>
        \A k \in DOMAIN task :
            RetriedThenOk(k) => Count(ret, email_ids_to_fetch[k]) = 1

\* C2 amended: a message fetched OK at the third attempt is in the returned
\* list exactly once whenever fetch_emails returns without its handler having
\* run, and it is never in the list more than once.
C2_RetriedOnce ==
    pc = "returned" =>
        \A k \in DOMAIN task :
            RetriedThenOk(k) =>
                /\ Count(ret, email_ids_to_fetch[k]) <= 1
                /\ (~caught => Count(ret, email_ids_to_fetch[k]) = 1)

C2_Witness ==
    /\ pc = "returned"
    /\ ~caught
    /\ \E k \in DOMAIN task :
         /\ RetriedThenOk(k)
         /\ \E j \in DOMAIN task : j # k /\ AllFailed(j)

\* C3 as stated: a message whose three attempts all fail is absent from the
\* result, and every sibling that fetched and parsed is present.
C3_Original ==
    pc = "returned" =>
        \A k \in DOMAIN task :
            AllFailed(k) =>
                /\ Count(ret, email_ids_to_fetch[k]) = 0
                /\ \A j \in DOMAIN task :
                     Succeeded(j) => Count(ret, email_ids_to_fetch[j]) = 1

\* C3 amended: a message whose three attempts all fail is absent from the
\* result; every sibling that fetched and parsed is present whenever
\* fetch_emails returns without its handler having run.
C3_FailedDropped ==
    pc = "returned" =>
        \A k \in DOMAIN task :
            AllFailed(k) =>
                /\ Count(ret, email_ids_to_fetch[k]) = 0
                /\ (~caught =>
                     \A j \in DOMAIN task :
                        Succeeded(j) => Count(ret, email_ids_to_fetch[j]) = 1)

C3_Witness ==
    /\ pc = "returned"
    /\ ~caught
    /\ \E k \in DOMAIN task :
         /\ AllFailed(k)
         /\ "NO" \in Range(task[k].hist)
         /\ "ERR" \in Range(task[k].hist)
         /\ \E j \in DOMAIN task : Succeeded(j) /\ Len(ret) = 1

\* C4: once fetch_emails has returned, a session it opened is terminated.
C4_SessionClosed == pc = "returned" => session # "open"

\* C5: the ids selected are the last min(limit, n) ids of the search result.
C5_SelectsTail ==
    pc \in {"pool", "submit", "collect", "logout"} =>
        email_ids_to_fetch = LastK(IdsUpTo(mailbox), Min(limit, mailbox))

(***************************************************************************)
(* Claims about the rate limiter (SpecServer) and the enrichment           *)
(* (SpecEnrich).                                                           *)
(***************************************************************************)
\* C6: the timestamp a call of respect_cooldown writes to last_api_call is
\* at least COOLDOWN_PERIOD later than the one the previous call wrote,
\* whichever requests the two calls belong to.
C6_CooldownSpacing ==
    Len(stamps) = 2 => stamps[2] - stamps[1] >= COOLDOWN_PERIOD

C6_Witness ==
    /\ Len(stamps) = 2
    /\ stamp_by[1] # stamp_by[2]
    /\ stamps[2] - stamps[1] = COOLDOWN_PERIOD
    /\ \A r \in Requests : rq[r].pc \in {"summary", "sleep"}

\* C7: the enrichment of a request yields one record per raw message, in
\* the same order and with the same id, whatever each message's steps did.
C7_OneRecordPerMessage ==
    \A r \in Requests :
        rq[r].status = 200 =>
            /\ Len(rq[r].processed_emails) = Len(rq[r].raw_emails)
            /\ \A k \in DOMAIN rq[r].raw_emails :
                 rq[r].processed_emails[k].id = rq[r].raw_emails[k].id

C7_Witness ==
    \E r \in Requests :
        /\ rq[r].status = 200
        /\ Len(rq[r].raw_emails) = 2
        /\ rq[r].raised[1]
        /\ ~rq[r].raised[2]
        /\ rq[r].processed_emails[2].summary = "Summary unavailable"

\* C8: a message one of whose steps raised in process_email is emitted as
\* the Degraded record: summary "Error generating summary", no tags, and the
\* id, sender, subject, date and unread flag of the input message.
C8_DegradedRecord ==
    \A r \in Requests :
        \A k \in DOMAIN rq[r].processed_emails :
            rq[r].raised[k] =>
                rq[r].processed_emails[k] =
                    [id |-> rq[r].raw_emails[k].id,
                     from |-> rq[r].raw_emails[k].from,
                     subject |-> rq[r].raw_emails[k].subject,
                     summary |-> "Error generating summary",
                     date |-> rq[r].raw_emails[k].date,
                     tags |-> <<>>,
                     unread |-> rq[r].raw_emails[k].unread]

C8_Witness ==
    \E r \in Requests :
        /\ rq[r].status = 200
        /\ \E k \in DOMAIN rq[r].processed_emails :
             /\ rq[r].raised[k]
             /\ rq[r].processed_emails[k].id = 2
             /\ rq[r].processed_emails[k].tags = <<>>

\* C13: whenever the Summarizer's call fails, summarize_text returns
\* "Summary unavailable" and raises nothing: the message goes on to the
\* Tagger with that summary, and it is emitted Degraded only if the Tagger's
\* step raised.
C13_SummaryUnavailable ==
    \A r \in Requests :
        \A k \in DOMAIN rq[r].summarized :
            ~rq[r].summarized[k] =>
                IF k > Len(rq[r].raw_tags)
                THEN /\ rq[r].pc = "sleep"
                     /\ rq[r].summary = "Summary unavailable"
                ELSE /\ rq[r].raw_tags[k] # NotCalled
                     /\ rq[r].raised[k] = ConvertTags(rq[r].raw_tags[k]).raised
                     /\ ~rq[r].raised[k] =>
                          rq[r].processed_emails[k].summary =
                              "Summary unavailable"

C13_Witness ==
    \E r \in Requests :
        /\ rq[r].status = 200
        /\ Len(rq[r].summarized) = 2
        /\ ~rq[r].summarized[1]
        /\ rq[r].raw_tags[1] = ListOf(<<BareName("general")>>)
        /\ rq[r].processed_emails[1].summary = "Summary unavailable"
        /\ rq[r].processed_emails[1].tags = <<ToTag(BareName("general"))>>

\* C15: when fetch_emails_from_server fails at the session level, the
\* request is answered 500 with a detail and no list, and neither the
\* Summarizer nor the Tagger is called for it.
C15_ServerError ==
    \A r \in Requests :
        rq[r].failed =>
            /\ rq[r].pc = "done"
            /\ rq[r].status = 500
            /\ rq[r].body = "detail"
            /\ rq[r].summarized = <<>>
            /\ rq[r].raw_tags = <<>>
            /\ r \notin Range(stamp_by)

C15_Witness ==
    \E r \in Requests :
        /\ rq[r].failed
        /\ rq[r].status = 500
        /\ inbox = 2

\* C18: across the requests in flight, at most one message is between the
\* start of its Summarizer call and the completion of its Tagger call.
C18_OneMessageInEnrichment ==
    Cardinality({r \in Requests : rq[r].pc = "sleep"}) <= 1

\* the candidates generate_tags converts: a bare name or {name, confidence}
Convertible(raw) ==
    /\ raw.t = "list"
    /\ \A i \in DOMAIN raw.v : raw.v[i].k \in {"str", "obj"}

\* C19: generate_tags yields one Tag per candidate, in the same order: an
\* object keeps its name and confidence, a bare name gets confidence 1.0,
\* and color is what the tag store answers for the name, or None.
C19_OneTagPerCandidate ==
    \A r \in Requests :
        \A k \in DOMAIN rq[r].processed_emails :
            Convertible(rq[r].raw_tags[k]) =>
                LET cands == rq[r].raw_tags[k].v
                    tags  == rq[r].processed_emails[k].tags
                IN  /\ Len(tags) = Len(cands)
                    /\ \A i \in DOMAIN cands :
                         /\ tags[i].name = cands[i].name
                         /\ tags[i].confidence =
                                IF cands[i].k = "obj" THEN cands[i].conf
                                ELSE 10
                         /\ tags[i].color =
                                get_tag_color(TAG_COLORS, cands[i].name)

C19_Witness ==
    \E r \in Requests :
        \E k \in DOMAIN rq[r].processed_emails :
            /\ rq[r].raw_tags[k] =
                   ListOf(<<Named("urgent", 9), BareName("Club "),
                            Named("custom", 15)>>)
            /\ rq[r].processed_emails[k].tags =
                   <<[name |-> "urgent", confidence |-> 9,
                      color |-> "#e74c3c"],
                     [name |-> "Club ", confidence |-> 10,
                      color |-> TAG_COLORS["club"]],
                     [name |-> "custom", confidence |-> 15,
                      color |-> "None"]>>

\* C21: every Tag of every emitted record has a lower-cased, trimmed name
\* and a confidence between 0.0 and 1.0.
C21_TagWellFormed ==
    \A r \in Requests :
        \A k \in DOMAIN rq[r].processed_emails :
            \A i \in DOMAIN rq[r].processed_emails[k].tags :
                LET tag == rq[r].processed_emails[k].tags[i]
                IN  /\ tag.name = LowerStrip(tag.name)
                    /\ tag.confidence >= 0
                    /\ tag.confidence <= 10

\* the calls of one message in the order wait, Summarizer, wait, Tagger,
\* colour resolution, Assembled or Degraded
InOrder(steps) ==
    \/ steps = <<>>
    \/ steps = <<"respect_cooldown", "summarize_text">>
    \/ /\ Len(steps) >= 5
       /\ SubSeq(steps, 1, 4) = <<"respect_cooldown", "summarize_text",
                                  "respect_cooldown", "analyze_and_tag_email">>
       /\ \A i \in 5..(Len(steps) - 1) : steps[i] = "get_tag_color"
       /\ steps[Len(steps)] \in {"Assembled", "Degraded"}

\* C22: the steps of each message occur in the order wait, Summarizer call,
\* wait, Tagger call, colour resolution, Assembled or Degraded: each call of
\* the Summarizer or the Tagger directly follows its own respect_cooldown,
\* and the Tagger's call never precedes the Summarizer's.
C22_StepOrder ==
    \A r \in Requests :
        /\ InOrder(rq[r].steps)
        /\ rq[r].pc = "sleep" <=> Len(rq[r].steps) = 2
        /\ Len(rq[r].raw_tags) <= Len(rq[r].summarized)
        /\ Len(rq[r].summarized) <= Len(rq[r].raw_tags) + 1

C22_Witness ==
    \E r \in Requests :
        /\ rq[r].steps = <<"respect_cooldown", "summarize_text",
                           "respect_cooldown", "analyze_and_tag_email",
                           "get_tag_color", "get_tag_color", "get_tag_color",
                           "Assembled">>
        /\ Len(rq[r].processed_emails) = 2

(***************************************************************************)
(* Claims about the retries and the pool of the batch path.                *)
(***************************************************************************)
\* the fetch calls issued so far for the id of task k
Issued(k) ==
    Len(task[k].hist) + (IF task[k].st \in {"infetch", "hung"} THEN 1 ELSE 0)

\* C23: for each selected id at most 3 fetch calls are issued, each further
\* one after a non-OK status or a raised error, and none after an attempt
\* returned OK, whatever process_message made of it.
C23_AtMostThreeFetches ==
    \A k \in DOMAIN task :
        /\ Issued(k) <= max_retries
        /\ \A a \in 1..(Issued(k) - 1) : task[k].hist[a] \in {"NO", "ERR"}
        /\ (task[k].hist # <<>> /\ task[k].hist[Len(task[k].hist)] = "OK") =>
               task[k].st = "finished"

C23_Witness ==
    \E k \in DOMAIN task :
        /\ task[k].hist = <<"NO", "ERR", "OK">>
        /\ task[k].parse = "fail"
        /\ task[k].st = "finished"
        /\ pc = "returned"

\* C24 (SpecPool): the tasks running at the same time are never more than
\* min(count, 5), count being the number of selected ids, and every selected
\* id is submitted to the pool exactly once.
C24_PoolBound ==
    /\ Cardinality(Busy) <= Min(Len(email_ids_to_fetch), POOL_CAP)
    /\ submitted <= Len(email_ids_to_fetch)
    /\ task # <<>> => DOMAIN task = DOMAIN email_ids_to_fetch
    /\ \A i, j \in DOMAIN email_ids_to_fetch :
           i # j => email_ids_to_fetch[i] # email_ids_to_fetch[j]
    /\ pc \in {"collect", "logout"} => submitted = Len(email_ids_to_fetch)
    /\ \A k \in DOMAIN task : task[k].st # "queued" => k <= submitted

C24_Witness ==
    /\ Len(email_ids_to_fetch) = POOL_CAP + 1
    /\ Cardinality(Busy) = POOL_CAP
    /\ submitted = POOL_CAP + 1
    /\ task[POOL_CAP + 1].st = "queued"

\* C25 (FairSpec): with the threads scheduled fairly, every call of
\* fetch_emails returns.
C25_Terminates == <>(pc = "returned")

(***************************************************************************)
(* Claims about the failures of the batch path's session (Spec).           *)
(***************************************************************************)
\* C14: in fetch_emails of email_handler.py, a failure to connect, to
\* negotiate TLS, to log in, to select the folder or to search makes the
\* function return the empty list; the exception does not leave it.
C14_EmptyOnSessionFailure ==
    failed_at \in {"connect", "starttls", "login", "select", "search"} =>
        /\ pc = "returned"
        /\ caught
        /\ ret = <<>>

C14_Witness ==
    /\ failed_at = "search"
    /\ session = "open"
    /\ mailbox = 2
    /\ pc = "returned"
    /\ ret = <<>>

(***************************************************************************)
(* One fetched message: body extraction and the record built from it.      *)
(* A message is its From, Subject and Date headers, each given by how it   *)
(* decodes, and its leaf parts in the order msg.walk() yields them (the    *)
(* multipart containers walk() also yields have neither content type the   *)
(* code looks for).  A body is a sequence of pieces <<position, text>>.    *)
(***************************************************************************)
ContentTypes == {"text/plain", "text/html", "application/pdf"}

\* values of a part's Content-Disposition header ("" when it has none)
Dispositions ==
    {"", "attachment; filename=notes.txt", "ATTACHMENT; filename=notes.txt",
     "inline; filename=attachment.txt"}

\* the payload of a part: bytes that decode, bytes that are not valid in the
\* part's charset, no bytes, bytes in a charset Python does not know
Payloads == {"text", "invalid_bytes", "empty", "unknown_charset"}

\* how a header decodes: no encoded word, an empty value, an encoded word
\* whose bytes are not valid in its charset, one in an unknown charset
HeaderKinds == {"plain", "empty", "invalid_bytes", "unknown_charset"}

Parts == [ctype : ContentTypes, dispo : Dispositions, payload : Payloads]

\* email_handler.py:33, main.py:74  "attachment" in content_dispo: a
\* substring test on the header's value, in the case it was sent in
HasAttachmentWord(content_dispo) ==
    content_dispo \in {"attachment; filename=notes.txt",
                       "inline; filename=attachment.txt"}

\* email_handler.py:39-41, main.py:79-81  payload.decode(charset,
\* errors="replace") for the part at position pos: invalid bytes become
\* U+FFFD, an unknown charset raises LookupError
Decode(part, pos) ==
    CASE part.payload = "text" ->
             [raised |-> FALSE, text |-> <<<<pos, "text">>>>]
      [] part.payload = "invalid_bytes" ->
             [raised |-> FALSE, text |-> <<<<pos, "text U+FFFD">>>>]
      [] part.payload = "empty" -> [raised |-> FALSE, text |-> <<>>]
      [] OTHER -> [raised |-> TRUE, text |-> <<>>]

\* email_handler.py:28-52, main.py:69-91  the loop over msg.walk(), from
\* position pos on: what it adds to text (ct = "text/plain") or to html
RECURSIVE WalkParts(_, _, _)
WalkParts(parts, ct, pos) ==
    IF pos > Len(parts) THEN <<>>
    ELSE LET part == parts[pos]
             d    == Decode(part, pos)
         IN  (IF HasAttachmentWord(part.dispo) THEN <<>>
              ELSE IF part.ctype = ct /\ ~d.raised THEN d.text
              ELSE <<>>)
             \o WalkParts(parts, ct, pos + 1)

\* email_handler.py:68
NoReadableContent == <<<<0, "[No readable content]">>>>

\* email_handler.py:22-68  extract_body
extract_body(msg) ==
    LET part == msg.parts[1]
        d    == Decode(part, 1)
        text == IF msg.multipart THEN WalkParts(msg.parts, "text/plain", 1)
                ELSE IF part.payload # "empty" /\ part.ctype = "text/plain"
                        /\ ~d.raised
                     THEN d.text ELSE <<>>
        html == IF msg.multipart THEN WalkParts(msg.parts, "text/html", 1)
                ELSE IF part.payload # "empty" /\ part.ctype = "text/html"
                        /\ ~d.raised
                     THEN d.text ELSE <<>>
    IN  IF text # <<>> THEN text
        ELSE IF html # <<>> THEN html
        ELSE NoReadableContent

\* main.py:63-106  get_email_body
get_email_body(msg) ==
    LET part == msg.parts[1]
        d    == Decode(part, 1)
        text == IF msg.multipart THEN WalkParts(msg.parts, "text/plain", 1)
                ELSE IF part.ctype = "text/plain" /\ ~d.raised
                     THEN d.text ELSE <<>>
        html == IF msg.multipart THEN WalkParts(msg.parts, "text/html", 1)
                ELSE IF part.ctype = "text/html" /\ ~d.raised
                     THEN d.text ELSE <<>>
    IN  IF text # <<>> THEN text ELSE html

\* email_handler.py:13-20  decode_mime: part.decode(enc or "utf-8") has no
\* errors argument, so invalid bytes raise UnicodeDecodeError and an unknown
\* charset raises LookupError
decode_mime(h) ==
    CASE h = "empty" -> [raised |-> FALSE, text |-> "N/A"]
      [] h = "plain" -> [raised |-> FALSE, text |-> "decoded"]
      [] OTHER       -> [raised |-> TRUE, text |-> ""]

\* email_handler.py:78-85  the subject: errors='replace' replaces invalid
\* bytes; an unknown charset raises LookupError
BatchSubject(h) ==
    CASE h = "empty" -> [raised |-> FALSE, text |-> ""]
      [] h = "plain" -> [raised |-> FALSE, text |-> "decoded"]
      [] h = "invalid_bytes" -> [raised |-> FALSE, text |-> "decoded U+FFFD"]
      [] OTHER -> [raised |-> TRUE, text |-> ""]

\* email_handler.py:70-98  process_message: the record, or None when
\* anything inside the try of line 74 raised
process_message(msg) ==
    LET subject == BatchSubject(msg.subject)
        sender  == decode_mime(msg.from)
        date    == decode_mime(msg.date)
    IN  IF subject.raised \/ sender.raised \/ date.raised
        THEN [t |-> "none"]
        ELSE [t |-> "record", id |-> 1, sender |-> sender.text,
              subject |-> subject.text, body |-> extract_body(msg),
              date |-> date.text, unread |-> TRUE]

\* main.py:138-147  the subject: an exception of the decoding is caught
ServerSubject(h) ==
    CASE h = "empty" -> ""
      [] h = "plain" -> "decoded"
      [] h = "invalid_bytes" -> "decoded U+FFFD"
      [] OTHER -> "[Subject encoding error]"

\* main.py:135-160  the record fetch_emails_from_server appends: From and
\* Date are the headers as msg.get returns them, not decoded
ServerRecord(msg) ==
    [t |-> "record", id |-> 1, from |-> <<"header", msg.from>>,
     subject |-> ServerSubject(msg.subject), date |-> <<"header", msg.date>>,
     body |-> get_email_body(msg), unread |-> TRUE]

\* email_handler.py:70-98 with extract_body applied to the message
ProcessMessage ==
    /\ mm_pc = "raw"
    /\ mm_path = "batch"
    /\ mm_body' = extract_body(mm_msg)
    /\ mm_record' = process_message(mm_msg)
    /\ mm_pc' = "built"
    /\ UNCHANGED <<mm_path, mm_msg>>

\* main.py:135-160
BuildServerRecord ==
    /\ mm_pc = "raw"
    /\ mm_path = "server"
    /\ mm_body' = get_email_body(mm_msg)
    /\ mm_record' = ServerRecord(mm_msg)
    /\ mm_pc' = "built"
    /\ UNCHANGED <<mm_path, mm_msg>>

\* every message of the model, on either fetch path: a single part, or a
\* multipart message of 1..MaxParts leaf parts
MimeInit ==
    /\ FetchIdle
    /\ TaggerIdle
    /\ ServerIdle
    /\ TagStart
    /\ mm_path \in {"batch", "server"}
    /\ \E multipart \in BOOLEAN, n \in 1..MaxParts :
         /\ ~multipart => n = 1
         /\ mm_msg \in [multipart : {multipart}, parts : [1..n -> Parts],
                        from : HeaderKinds, subject : HeaderKinds,
                        date : HeaderKinds]
    /\ mm_pc = "raw"
    /\ mm_body = <<>>
    /\ mm_record = [t |-> "none"]

MimeNext ==
    \/ ProcessMessage /\ UNCHANGED <<fetchVars, taggerVars, serverVars,
                                    tagVars>>
    \/ BuildServerRecord /\ UNCHANGED <<fetchVars, taggerVars, serverVars,
                                    tagVars>>

SpecMime == MimeInit /\ [][MimeNext]_vars

(***************************************************************************)
(* Claims about one message (SpecMime).                                    *)
(***************************************************************************)
\* the part is an attachment: its disposition type is "attachment", in
\* any case
IsAttachment(part) ==
    part.dispo \in {"attachment; filename=notes.txt",
                    "ATTACHMENT; filename=notes.txt"}

\* the concatenation, in walk order, of the decoded text of the parts of
\* content type ct that are no attachments
RECURSIVE Readable(_, _, _)
Readable(parts, ct, pos) ==
    IF pos > Len(parts) THEN <<>>
    ELSE (IF ~IsAttachment(parts[pos]) /\ parts[pos].ctype = ct
          THEN Decode(parts[pos], pos).text ELSE <<>>)
         \o Readable(parts, ct, pos + 1)

\* C16: on both fetch paths, the body of a message with readable text/plain
\* parts is their concatenation in walk order, whatever HTML it has; the
\* body of a message whose only readable parts are text/html is the
\* concatenation of those; attachment parts contribute nothing.
C16_BodySelection ==
    mm_pc = "built" =>
        LET plain == Readable(mm_msg.parts, "text/plain", 1)
            html  == Readable(mm_msg.parts, "text/html", 1)
        IN  /\ plain # <<>> => mm_body = plain
            /\ (plain = <<>> /\ html # <<>>) => mm_body = html

\* C17: on both fetch paths, the body of a message with neither readable
\* plain text nor readable HTML is the marker "[No readable content]".
C17_NoReadableMarker ==
    (/\ mm_pc = "built"
     /\ Readable(mm_msg.parts, "text/plain", 1) = <<>>
     /\ Readable(mm_msg.parts, "text/html", 1) = <<>>) =>
        mm_body = NoReadableContent

\* C20: whatever fails to decode in the From, Subject or Date header or in
\* a body part, process_message still produces a record for the message.
C20_NeverDropped ==
    (mm_pc = "built" /\ mm_path = "batch") => mm_record.t = "record"

(***************************************************************************)
(* The tag store alone (SpecTags), and the claim about it.                 *)
(***************************************************************************)
TagInit ==
    /\ FetchIdle
    /\ TaggerIdle
    /\ ServerIdle
    /\ MimeIdle
    /\ TagStart

SpecTags == TagInit /\ [][TagNext]_vars

\* C26: after any sequence of add_tag, remove_tag and set_tag_color calls on
\* a store that began with no user tags, (a) user_tags is disjoint from the
\* standard tags, which are unchanged, (b) get_tag_color returns a colour
\* for every name of TAG_COLORS, "general" included, and (c) a call that
\* returned False left user_tags and tag_colors as they were.
C26_StoreInvariants ==
    /\ user_tags \cap standard_tags = {}
    /\ standard_tags = UNION {TAG_CATEGORIES[c] : c \in DOMAIN TAG_CATEGORIES}
    /\ \A name \in DOMAIN TAG_COLORS :
           get_tag_color(tag_colors, name) # "None"
    /\ (tm_call.op # "none" /\ ~tm_call.ret) =>
           /\ user_tags = tm_before.user_tags
           /\ tag_colors = tm_before.tag_colors

====
